---- MODULE Spec2Model ----
(***************************************************************************)
(* Model of src/pipeline.py: the Prefect flow pipeline() and its three     *)
(* tasks extract_data, transform_data and load_data.                       *)
(*                                                                         *)
(* Two specifications:                                                     *)
(*   AggSpec  transform_data applied to a bounded DataFrame and to a       *)
(*            reordering of its rows;                                      *)
(*   Spec     runs of pipeline() over a raw directory, a docs directory    *)
(*            and a wall clock, interleaved at the granularity of the      *)
(*            statements that touch the file system or the clock.          *)
(***************************************************************************)
EXTENDS Integers, Sequences, FiniteSets, TLC

(***************************************************************************)
(* Bounds                                                                  *)
(***************************************************************************)
\* rows of the DataFrame handed to transform_data in AggSpec
MaxLen == 3
\* concurrent or repeated invocations of pipeline() in Spec
NumRuns == 2
\* last instant of the wall clock in Spec
MaxClock == 2
\* clock instants per second (datetime.now() is finer than the %S of the name)
TicksPerSecond == 2

(***************************************************************************)
(* CSV text and DataFrame cells                                            *)
(***************************************************************************)
demographic_cols == <<"gender", "race", "age_group", "education", "income">>

Columns == {"policy_support"} \cup {demographic_cols[i] : i \in 1..Len(demographic_cols)}

\* text of the policy_support cell of a CSV row: in domain, out of domain,
\* missing, not a number
OutcomeText == {"0", "1", "2", "", "x"}

\* the demographic cells of a CSV row; "" is a missing value
Profiles ==
  { [gender |-> "F", race |-> "black", age_group |-> "18-29",
     education |-> "college", income |-> "high"],
    [gender |-> "", race |-> "white", age_group |-> "65+",
     education |-> "college", income |-> ""] }

CsvRow(o, p) == [c \in Columns |-> IF c = "policy_support" THEN o ELSE p[c]]

CsvRows == {CsvRow(o, p) : o \in OutcomeText, p \in Profiles}

\* text that read_csv parses as an integer, and its value
NumericText == {"0", "1", "2"}
IntOf(t) == CASE t = "0" -> 0 [] t = "1" -> 1 [] t = "2" -> 2

\* the cells of a DataFrame: a number, NaN, or a Python str
Num(n) == [kind |-> "num", num |-> n]
NaNCell == [kind |-> "nan"]
Str(s) == [kind |-> "str", str |-> s]

\* pandas.read_csv on one file (a sequence of CSV rows below the header): a
\* column whose cells are all numbers or empty is numeric, any other column
\* holds str objects; an empty cell is NaN in both
read_csv(file) ==
  LET numeric(c) == \A i \in 1..Len(file) : file[i][c] \in NumericText \cup {""}
      cell(t, c) == IF t = "" THEN NaNCell
                    ELSE IF numeric(c) THEN Num(IntOf(t))
                    ELSE Str(t)
  IN  [i \in 1..Len(file) |-> [c \in Columns |-> cell(file[i][c], c)]]

RECURSIVE concat(_)
\* pandas.concat(frames, ignore_index=True)
concat(frames) ==
  IF frames = <<>> THEN <<>> ELSE Head(frames) \o concat(Tail(frames))

(***************************************************************************)
(* Floats, as exact fractions; 0/0 is NaN                                  *)
(***************************************************************************)
RECURSIVE Gcd(_, _)
Gcd(a, b) == IF b = 0 THEN a ELSE Gcd(b, a % b)

Frac(n, d) == IF d = 0 THEN [num |-> 0, den |-> 0]
              ELSE [num |-> n \div Gcd(n, d), den |-> d \div Gcd(n, d)]

NaN == Frac(0, 0)

RECURSIVE SumNum(_)
SumNum(cells) ==
  IF cells = <<>> THEN 0
  ELSE (IF Head(cells).kind = "num" THEN Head(cells).num ELSE 0) + SumNum(Tail(cells))

RECURSIVE CountNotNull(_)
\* Series.count(): the cells that are not NaN
CountNotNull(cells) ==
  IF cells = <<>> THEN 0
  ELSE (IF Head(cells).kind = "nan" THEN 0 ELSE 1) + CountNotNull(Tail(cells))

HasStr(cells) == \E i \in 1..Len(cells) : cells[i].kind = "str"

\* a forgotten division: Series.sum() where Series.mean() is meant
mean_as_sum(cells) == Frac(SumNum(cells), IF CountNotNull(cells) = 0 THEN 0 ELSE 1)

\* Series.mean() with the default skipna=True: NaN cells are left out of the
\* sum and of the divisor, and a Series with no number left has mean NaN
\* (a Series holding a str raises TypeError before this is used)
mean(cells) == Frac(SumNum(cells), CountNotNull(cells))

(***************************************************************************)
(* transform_data                                                          *)
(***************************************************************************)
Column(df, c) == [i \in 1..Len(df) |-> df[i][c]]

\* Python's order on the str values of the demographic columns (code points)
SortedValues ==
  <<"18-29", "65+", "F", "black", "college", "high", "white">>
Rank(cell) == CHOOSE i \in 1..Len(SortedValues) : SortedValues[i] = cell.str

RECURSIVE SortKeys(_)
SortKeys(S) ==
  IF S = {} THEN <<>>
  ELSE LET m == CHOOSE x \in S : \A y \in S : Rank(x) <= Rank(y)
       IN  <<m>> \o SortKeys(S \ {m})

RECURSIVE FirstSeen(_)
\* groupby(col, sort=False): the keys in order of first appearance
FirstSeen(cells) ==
  IF cells = <<>> THEN <<>>
  ELSE LET rest == FirstSeen(SubSeq(cells, 1, Len(cells) - 1))
           last == cells[Len(cells)]
       IN  IF last.kind = "nan" \/ \E i \in 1..Len(rest) : rest[i] = last
           THEN rest ELSE Append(rest, last)

group_keys_unsorted(df, col) == FirstSeen(Column(df, col))

\* df.groupby(col) with the defaults sort=True, dropna=True: the distinct
\* values of the column that are not NaN, in sorted order
group_keys(df, col) ==
  SortKeys({df[i][col] : i \in {j \in 1..Len(df) : df[j][col].kind # "nan"}})

RECURSIVE SelectRows(_, _, _)
SelectRows(df, col, key) ==
  IF df = <<>> THEN <<>>
  ELSE (IF Head(df)[col] = key THEN <<Head(df)>> ELSE <<>>)
       \o SelectRows(Tail(df), col, key)

\* df.groupby(col)["policy_support"].agg(["count", "mean"]).reset_index()
\*   .rename(columns=...).to_dict(orient="records")
breakdown(df, col) ==
  LET keys == group_keys(df, col)
      group(k) == Column(SelectRows(df, col, k), "policy_support")
  IN  [i \in 1..Len(keys) |->
         (col :> keys[i].str) @@
         [respondent_count |-> CountNotNull(group(keys[i])),
          support_rate |-> mean(group(keys[i]))]]

\* transform_data(df): the summary dict, or the exception raised
transform_data(df) ==
  IF HasStr(Column(df, "policy_support"))
  THEN [raised |-> "TypeError"]
  ELSE [raised |-> "",
        value |-> [k \in {"overall_support_rate"} \cup
                         {demographic_cols[i] : i \in 1..Len(demographic_cols)} |->
                     IF k = "overall_support_rate"
                     THEN mean(Column(df, "policy_support"))
                     ELSE breakdown(df, k)]]

(***************************************************************************)
(* load_data: rendering                                                    *)
(***************************************************************************)
\* f"{rate:.3f}": "nan", or the rate rounded to thousandths (no fraction the
\* bounded frames produce lies halfway between two thousandths)
Fmt3(rate) == IF rate.den = 0 THEN [text |-> "nan"]
              ELSE [milli |-> (2000 * rate.num + rate.den) \div (2 * rate.den)]

\* the lines of the report: the Generated line, the overall rate, and one
\* section per demographic column with one line per record of the summary
render(s, now) ==
  [generated |-> now,
   overall |-> Fmt3(s["overall_support_rate"]),
   sections |-> [i \in 1..Len(demographic_cols) |->
                   LET col == demographic_cols[i]
                   IN  [j \in 1..Len(s[col]) |->
                          [value |-> s[col][j][col],
                           count |-> s[col][j]["respondent_count"],
                           rate |-> Fmt3(s[col][j]["support_rate"])]]]]

(***************************************************************************)
(* State of a direct call of transform_data (AggSpec)                      *)
(***************************************************************************)
VARIABLES
  dataset,           \* the DataFrame handed to transform_data
  reordered,         \* the same rows in another order
  aggregated,        \* <<>> before the call, <<transform_data(dataset)>> after
  aggregatedAgain    \* likewise for reordered

aggVars == <<dataset, reordered, aggregated, aggregatedAgain>>

(***************************************************************************)
(* Spec: runs of pipeline()                                                *)
(***************************************************************************)
VARIABLES
  rawDir,       \* data/raw: the CSV files, each the rows below its header
  docs,         \* docs: report path -> file
  clock,        \* datetime.now(), in ticks
  pc,           \* per run: the task pipeline() is at, or Done / Failed
  df,           \* per run: local df of pipeline(), <<>> while unassigned
  summary,      \* per run: local summary of pipeline()
  report_path,  \* per run: local report_path of load_data
  lines,        \* per run: local lines of load_data
  result,       \* per run: value returned by pipeline()
  raised,       \* per run: exception that left pipeline(), "" if none
  log,          \* per run: task starts, returns and raises, in order
  touched       \* per run: report paths the run created, truncated or wrote

runVars == <<rawDir, docs, clock, pc, df, summary, report_path, lines, result,
             raised, log, touched>>

vars == <<runVars, aggVars>>

Runs == 1..NumRuns

Header == <<>>
Row10 == CsvRow("1", CHOOSE p \in Profiles : p.gender = "F")
Row01 == CsvRow("0", CHOOSE p \in Profiles : p.gender = "")
RowNA == CsvRow("", CHOOSE p \in Profiles : p.gender = "F")
RowX == CsvRow("x", CHOOSE p \in Profiles : p.gender = "F")

\* the states of data/raw the runs are checked on: no CSV file; one file with
\* only a header; two files; a file with a value that is not a number
RawDirs ==
  { <<>>,
    <<Header>>,
    <<<<Row10>>, <<Row01, RowNA>>>>,
    <<<<Row10, RowX>>>> }

\* report_<%Y-%m-%d_%H-%M-%S>.txt is named by the second of the clock
Second(t) == t \div TicksPerSecond
Paths == 0..Second(MaxClock)

NoFile == [exists |-> FALSE]
File(text) == [exists |-> TRUE, text |-> text]

Event(task, event, data) == [task |-> task, event |-> event, data |-> data]

\* a task wrapped with retries: the flow runs the failed task again
pipeline_retries(task, ok) ==
  IF ~ok THEN task
  ELSE CASE task = "extract_data" -> "transform_data"
         [] task = "transform_data" -> "load_data"
         [] task = "load_data" -> "Done"

\* an early return: the flow ends after transform_data
pipeline_skips_load(task, ok) ==
  IF ~ok THEN "Failed"
  ELSE CASE task = "extract_data" -> "transform_data"
         [] task = "transform_data" -> "Done"
         [] task = "load_data" -> "Done"

\* the body of pipeline(): three calls in sequence, each on the value the one
\* before returned; an exception of a task leaves the flow
pipeline(task, ok) ==
  IF ~ok THEN "Failed"
  ELSE CASE task = "extract_data" -> "transform_data"
         [] task = "transform_data" -> "load_data"
         [] task = "load_data" -> "Done"

Init ==
  /\ rawDir \in RawDirs
  /\ docs = [p \in Paths |-> NoFile]
  /\ clock = 0
  /\ pc = [r \in Runs |-> "extract_data"]
  /\ df = [r \in Runs |-> <<>>]
  /\ summary = [r \in Runs |-> <<>>]
  /\ report_path = [r \in Runs |-> <<>>]
  /\ lines = [r \in Runs |-> <<>>]
  /\ result = [r \in Runs |-> <<>>]
  /\ raised = [r \in Runs |-> ""]
  /\ log = [r \in Runs |-> <<>>]
  /\ touched = [r \in Runs |-> {}]
  /\ dataset = <<>>
  /\ reordered = <<>>
  /\ aggregated = <<>>
  /\ aggregatedAgain = <<>>

\* time passes
Tick ==
  /\ clock < MaxClock
  /\ clock' = clock + 1
  /\ UNCHANGED <<rawDir, docs, pc, df, summary, report_path, lines, result,
                 raised, log, touched, aggVars>>

\* extract_data with CSV files present: they are read in the order glob
\* yields them, which the file system decides, and concatenated
ExtractOk(r) ==
  /\ pc[r] = "extract_data"
  /\ rawDir # <<>>
  /\ \E order \in Permutations(1..Len(rawDir)) :
       LET frames == [i \in 1..Len(rawDir) |-> read_csv(rawDir[order[i]])]
           out == concat(frames)
       IN  /\ df' = [df EXCEPT ![r] = <<out>>]
           /\ log' = [log EXCEPT ![r] = @ \o <<Event("extract_data", "start", <<>>),
                                               Event("extract_data", "return", out)>>]
  /\ pc' = [pc EXCEPT ![r] = pipeline("extract_data", TRUE)]
  /\ UNCHANGED <<rawDir, docs, clock, summary, report_path, lines, result,
                 raised, touched, aggVars>>

\* extract_data with no CSV file: FileNotFoundError
ExtractFail(r) ==
  /\ pc[r] = "extract_data"
  /\ rawDir = <<>>
  /\ log' = [log EXCEPT ![r] = @ \o <<Event("extract_data", "start", <<>>),
                                      Event("extract_data", "raise", "FileNotFoundError")>>]
  /\ pc' = [pc EXCEPT ![r] = pipeline("extract_data", FALSE)]
  /\ raised' = [raised EXCEPT ![r] =
                  IF pc'[r] = "Failed" THEN "FileNotFoundError" ELSE @]
  /\ UNCHANGED <<rawDir, docs, clock, df, summary, report_path, lines, result,
                 touched, aggVars>>

\* transform_data(df)
Transform(r) ==
  /\ pc[r] = "transform_data"
  /\ LET out == transform_data(df[r][1])
         ok == out.raised = ""
     IN  /\ summary' = [summary EXCEPT ![r] = IF ok THEN <<out.value>> ELSE @]
         /\ log' = [log EXCEPT ![r] = @ \o
                      <<Event("transform_data", "start", df[r][1]),
                        IF ok THEN Event("transform_data", "return", out.value)
                        ELSE Event("transform_data", "raise", out.raised)>>]
         /\ pc' = [pc EXCEPT ![r] = pipeline("transform_data", ok)]
         /\ raised' = [raised EXCEPT ![r] =
                         IF pc'[r] = "Failed" THEN out.raised ELSE @]
  /\ UNCHANGED <<rawDir, docs, clock, df, report_path, lines, result, touched,
                 aggVars>>

\* load_data(summary) up to the open: the name is taken from the clock and
\* the lines are rendered, nothing is written yet
LoadRender(r) ==
  /\ pc[r] = "load_data"
  /\ report_path' = [report_path EXCEPT ![r] = <<Second(clock)>>]
  /\ lines' = [lines EXCEPT ![r] = <<render(summary[r][1], clock)>>]
  /\ log' = [log EXCEPT ![r] = Append(@, Event("load_data", "start", summary[r][1]))]
  /\ pc' = [pc EXCEPT ![r] = "load_data:open"]
  /\ UNCHANGED <<rawDir, docs, clock, df, summary, result, raised, touched,
                 aggVars>>

\* open(report_path, "w"): the file is created, or truncated if it exists
LoadOpen(r) ==
  /\ pc[r] = "load_data:open"
  /\ docs' = [docs EXCEPT ![report_path[r][1]] = File(<<>>)]
  /\ touched' = [touched EXCEPT ![r] = @ \cup {report_path[r][1]}]
  /\ pc' = [pc EXCEPT ![r] = "load_data:write"]
  /\ UNCHANGED <<rawDir, clock, df, summary, report_path, lines, result,
                 raised, log, aggVars>>

\* open fails (docs not writable): OSError, no file is touched
LoadOpenFail(r) ==
  /\ pc[r] = "load_data:open"
  /\ log' = [log EXCEPT ![r] = Append(@, Event("load_data", "raise", "OSError"))]
  /\ pc' = [pc EXCEPT ![r] = pipeline("load_data", FALSE)]
  /\ raised' = [raised EXCEPT ![r] = IF pc'[r] = "Failed" THEN "OSError" ELSE @]
  /\ UNCHANGED <<rawDir, docs, clock, df, summary, report_path, lines, result,
                 touched, aggVars>>

\* f.write("\n".join(lines)), the file is closed, load_data returns the path
\* and pipeline() returns it
LoadWrite(r) ==
  /\ pc[r] = "load_data:write"
  /\ docs' = [docs EXCEPT ![report_path[r][1]] = File(lines[r])]
  /\ log' = [log EXCEPT ![r] = Append(@, Event("load_data", "return", report_path[r][1]))]
  /\ pc' = [pc EXCEPT ![r] = pipeline("load_data", TRUE)]
  /\ result' = [result EXCEPT ![r] = IF pc'[r] = "Done" THEN report_path[r] ELSE @]
  /\ UNCHANGED <<rawDir, clock, df, summary, report_path, lines, raised,
                 touched, aggVars>>

\* the write or the flush at close fails (disk full, I/O error): OSError; the
\* file that open created or truncated stays
LoadWriteFail(r) ==
  /\ pc[r] = "load_data:write"
  /\ log' = [log EXCEPT ![r] = Append(@, Event("load_data", "raise", "OSError"))]
  /\ pc' = [pc EXCEPT ![r] = pipeline("load_data", FALSE)]
  /\ raised' = [raised EXCEPT ![r] = IF pc'[r] = "Failed" THEN "OSError" ELSE @]
  /\ UNCHANGED <<rawDir, docs, clock, df, summary, report_path, lines, result,
                 touched, aggVars>>

Next ==
  \/ Tick
  \/ \E r \in Runs : ExtractOk(r)
  \/ \E r \in Runs : ExtractFail(r)
  \/ \E r \in Runs : Transform(r)
  \/ \E r \in Runs : LoadRender(r)
  \/ \E r \in Runs : LoadOpen(r)
  \/ \E r \in Runs : LoadOpenFail(r)
  \/ \E r \in Runs : LoadWrite(r)
  \/ \E r \in Runs : LoadWriteFail(r)

Spec == Init /\ [][Next]_vars

(***************************************************************************)
(* AggSpec: transform_data on a DataFrame and on a reordering of its rows  *)
(***************************************************************************)
RECURSIVE SeqsUpTo(_, _)
SeqsUpTo(S, n) ==
  IF n = 0 THEN {<<>>}
  ELSE LET shorter == SeqsUpTo(S, n - 1)
       IN  shorter \cup {Append(q, x) : q \in {t \in shorter : Len(t) = n - 1}, x \in S}

Reorder(frame, f) == [i \in 1..Len(frame) |-> frame[f[i]]]

AggInit ==
  /\ \E rows \in SeqsUpTo(CsvRows, MaxLen) : dataset = read_csv(rows)
  /\ reordered = dataset
  /\ aggregated = <<>>
  /\ aggregatedAgain = <<>>
  /\ rawDir = <<>>
  /\ docs = [p \in Paths |-> NoFile]
  /\ clock = 0
  /\ pc = [r \in Runs |-> "extract_data"]
  /\ df = [r \in Runs |-> <<>>]
  /\ summary = [r \in Runs |-> <<>>]
  /\ report_path = [r \in Runs |-> <<>>]
  /\ lines = [r \in Runs |-> <<>>]
  /\ result = [r \in Runs |-> <<>>]
  /\ raised = [r \in Runs |-> ""]
  /\ log = [r \in Runs |-> <<>>]
  /\ touched = [r \in Runs |-> {}]

\* one call of transform_data on the rows as read, one on the rows reordered
Aggregate ==
  /\ aggregated = <<>>
  /\ \E f \in Permutations(1..Len(dataset)) : reordered' = Reorder(dataset, f)
  /\ aggregated' = <<transform_data(dataset)>>
  /\ aggregatedAgain' = <<transform_data(reordered')>>
  /\ UNCHANGED <<dataset, runVars>>

AggNext == Aggregate

AggSpec == AggInit /\ [][AggNext]_vars

(***************************************************************************)
(* Properties of the runs of pipeline() (Spec)                             *)
(***************************************************************************)
Tasks == <<"extract_data", "transform_data", "load_data">>
TaskIndex(t) == CHOOSE i \in 1..Len(Tasks) : Tasks[i] = t
Loading == {"load_data", "load_data:open", "load_data:write"}

Is(e, task, event) == e.task = task /\ e.event = event

\* the start of `task` at position i of the log L follows a return of `before`
\* with the very value the start received
FedBy(L, i, task, before) ==
  Is(L[i], task, "start") =>
    \E j \in 1..(i - 1) : Is(L[j], before, "return") /\ L[j].data = L[i].data

\* C1: in every run the stages start in the order Extracting, Transforming,
\* Loading, Done: transform_data starts only after extract_data returned, on
\* the DataFrame it returned; load_data starts only after transform_data
\* returned, on the summary it returned; the run is Done, with the report path
\* as its result, only after load_data wrote the file and returned that path.
StagesInOrder ==
  \A r \in Runs :
    LET L == log[r]
    IN  /\ \A i, j \in 1..Len(L) :
             i < j => TaskIndex(L[i].task) <= TaskIndex(L[j].task)
        /\ \A i \in 1..Len(L) :
             /\ FedBy(L, i, "transform_data", "extract_data")
             /\ FedBy(L, i, "load_data", "transform_data")
        /\ pc[r] = "transform_data" =>
             /\ L # <<>>
             /\ Is(L[Len(L)], "extract_data", "return")
             /\ df[r] = <<L[Len(L)].data>>
        /\ pc[r] \in Loading =>
             \E i \in 1..Len(L) :
               /\ Is(L[i], "transform_data", "return")
               /\ summary[r] = <<L[i].data>>
        /\ pc[r] = "Done" =>
             /\ L # <<>>
             /\ Is(L[Len(L)], "load_data", "return")
             /\ result[r] = <<L[Len(L)].data>>
             /\ result[r][1] \in touched[r]
             /\ docs[result[r][1]].exists

\* a run went through the three tasks and returned the path of a report
RunCompleted ==
  \E r \in Runs :
    /\ pc[r] = "Done"
    /\ Len(log[r]) = 6
    /\ docs[result[r][1]].exists
    /\ Len(df[r][1]) = 3

\* C2: a task that raises ends the run in Failed: the raise is the last event
\* of the run, the exception is the one that leaves pipeline(), no result is
\* returned, and in every run each task starts at most once.
FailureAbortsRun ==
  \A r \in Runs :
    LET L == log[r]
    IN  /\ \A t \in {Tasks[k] : k \in 1..Len(Tasks)} :
             Cardinality({i \in 1..Len(L) : Is(L[i], t, "start")}) <= 1
        /\ \A i \in 1..Len(L) :
             L[i].event = "raise" =>
               /\ i = Len(L)
               /\ pc[r] = "Failed"
               /\ raised[r] = L[i].data
        /\ pc[r] = "Failed" =>
             /\ L # <<>>
             /\ L[Len(L)].event = "raise"
             /\ raised[r] # ""
             /\ result[r] = <<>>

\* a run failed in transform_data and never started load_data
RunFailedInTransform ==
  \E r \in Runs :
    /\ pc[r] = "Failed"
    /\ raised[r] = "TypeError"
    /\ \A i \in 1..Len(log[r]) : log[r][i].task # "load_data"

\* the run read at least one row (its DataFrame, if assigned, is not empty)
ReadRows(r) == df[r] = <<>> \/ df[r][1] # <<>>

\* C3: a run that ends in Failed has created, truncated or written no report
\* file (stated for the runs that read at least one row).
FailedRunTouchesNoReport ==
  \A r \in Runs : (pc[r] = "Failed" /\ ReadRows(r)) => touched[r] = {}

\* C4: two runs that both succeed return distinct report paths (stated for
\* the runs that read at least one row).
SuccessfulRunsDistinctPaths ==
  \A r1, r2 \in Runs :
    (r1 # r2 /\ pc[r1] = "Done" /\ pc[r2] = "Done" /\ ReadRows(r1) /\ ReadRows(r2))
      => result[r1] # result[r2]

\* C6: a run whose extract_data returned a DataFrame of zero rows fails in
\* transform_data and never reaches load_data.
EmptyDatasetFailsRun ==
  \A r \in Runs :
    df[r] = <<<<>>>> => pc[r] \in {"transform_data", "Failed"}

(***************************************************************************)
(* Properties of transform_data (AggSpec)                                  *)
(***************************************************************************)
Returned == aggregated # <<>> /\ aggregated[1].raised = ""

Outcome(i) == dataset[i]["policy_support"]

RECURSIVE SumCounts(_)
SumCounts(entries) ==
  IF entries = <<>> THEN 0
  ELSE Head(entries)["respondent_count"] + SumCounts(Tail(entries))

\* C5: for a DataFrame of N >= 1 rows and each demographic column, the
\* respondent_count entries of the returned breakdown sum to N.
CountsSumToN ==
  (Returned /\ Len(dataset) >= 1) =>
    \A k \in 1..Len(demographic_cols) :
      SumCounts(aggregated[1].value[demographic_cols[k]]) = Len(dataset)

\* C7: if some row's policy_support is not 0 or 1 (another number, a value
\* that is no number, or missing), transform_data raises and returns no
\* summary.
InvalidOutcomeRejected ==
  (aggregated # <<>> /\ \E i \in 1..Len(dataset) : Outcome(i) \notin {Num(0), Num(1)})
    => aggregated[1].raised # ""

\* C8: transform_data gives the same outcome (the same summary, or the same
\* exception) on a DataFrame and on any reordering of its rows.
OrderInsensitive ==
  aggregated # <<>> => aggregated = aggregatedAgain

\* rows were reordered and the breakdown by race has two categories
ReorderedTwoCategories ==
  /\ Returned
  /\ reordered # dataset
  /\ Len(aggregated[1].value["race"]) = 2
  /\ Len(dataset) = 3

\* C9: for N >= 1 rows whose policy_support values are all 0 or 1,
\* overall_support_rate is the sum of the values divided by N, and lies in
\* [0, 1].
OverallIsExactMean ==
  (/\ aggregated # <<>>
   /\ Len(dataset) >= 1
   /\ \A i \in 1..Len(dataset) : Outcome(i) \in {Num(0), Num(1)})
    => /\ aggregated[1].raised = ""
       /\ LET rate == aggregated[1].value["overall_support_rate"]
              ones == Cardinality({i \in 1..Len(dataset) : Outcome(i) = Num(1)})
          IN  /\ rate.den > 0
              /\ rate.num * Len(dataset) = ones * rate.den
              /\ 0 <= rate.num
              /\ rate.num <= rate.den

\* policy_support = [1, 0] gives 0.5
HalfSupport ==
  /\ aggregated # <<>>
  /\ Len(dataset) = 2
  /\ Outcome(1) = Num(1)
  /\ Outcome(2) = Num(0)
  /\ aggregated[1].value["overall_support_rate"] = [num |-> 1, den |-> 2]

\* C10: for each demographic column the breakdown has one entry per distinct
\* value of the column, a missing value being a value of its own; the entry's
\* respondent_count is the number of rows with that value, at least 1, and
\* its support_rate the mean of policy_support over those rows.
OneEntryPerObservedValue ==
  Returned =>
    \A k \in 1..Len(demographic_cols) :
      LET col == demographic_cols[k]
          entries == aggregated[1].value[col]
          observed == {dataset[i][col] : i \in 1..Len(dataset)}
          rowsOf(e) == {i \in 1..Len(dataset) : dataset[i][col] = Str(e[col])}
          total(e) == Cardinality({i \in rowsOf(e) : Outcome(i) = Num(1)})
                      + 2 * Cardinality({i \in rowsOf(e) : Outcome(i) = Num(2)})
      IN  /\ Len(entries) = Cardinality(observed)
          /\ \A j \in 1..Len(entries) :
               /\ entries[j]["respondent_count"] = Cardinality(rowsOf(entries[j]))
               /\ entries[j]["respondent_count"] >= 1
               /\ entries[j]["support_rate"].num * Cardinality(rowsOf(entries[j]))
                    = total(entries[j]) * entries[j]["support_rate"].den

====
